---- MODULE Spec2Model ----
(***************************************************************************)
(* pg-sql-migrate: migrate() of src/index.js (the checkHash/validateDown   *)
(* revision, lines 144-353) as a state machine.  One run of migrate is a   *)
(* co-routine: every `yield` is a step of the model, every query may fail. *)
(* The database is modelled with a committed state (ledger, schema) and    *)
(* the working state of the open transaction (txLedger, txSchema).         *)
(***************************************************************************)
EXTENDS Integers, Sequences, FiniteSets, TLC

\* ---- bounds --------------------------------------------------------------
MaxId == 2

Ids == 1..MaxId

\* ---- file contents, scripts, hashes ---------------------------------------
\* A file's raw text is a token [id, rev]; "new" is the revision now in the
\* directory, "old" a revision the ledger may still hold.
Revs == {"old", "new"}

Data(id, rev) == [id |-> id, rev |-> rev]

\* data.split(/^--\s+?down/im), comment lines stripped, trimmed
UpOf(data) == [id |-> data.id, rev |-> data.rev, part |-> "up"]

DownOf(data) == [id |-> data.id, rev |-> data.rev, part |-> "down"]

\* crypto.createHash('sha512').update(data.replace(/\r\n/g, '\n')).digest('hex'):
\* a hex string, one per content, never the text 'nil'
ShaHex == [old |-> "sha512:old", new |-> "sha512:new", alt |-> "sha512:alt"]

Sha512(data) == ShaHex[data.rev]

NilHash == "nil"

NoColumn == "no-hash-column"

\* ---- the migrations directory ---------------------------------------------
\* A directory entry <digits>.<name>.sql with its content.
File(id) == [digits |-> <<id>>, name |-> "a", data |-> Data(id, "new")]

FileNames == {File(id) : id \in Ids}

\* The entry 0<id>.b.sql: its prefix differs from <id>.a.sql by a leading zero; it
\* has a content of its own.
ZeroFile(id) == [digits |-> <<0, id>>, name |-> "b", data |-> Data(id, "alt")]

\* the directory entries when prefixes with a leading zero occur as well
ZeroFileNames == FileNames \cup {ZeroFile(1)}

RECURSIVE Number(_)
\* Number(x[1]) on a run of decimal digits
Number(digits) ==
  IF digits = <<>> THEN 0
  ELSE 10 * Number(SubSeq(digits, 1, Len(digits) - 1)) + digits[Len(digits)]

RECURSIVE SortAsc(_)
\* .sort((a, b) => Math.sign(a.id - b.id)) over a set of records with an id
SortAsc(S) ==
  IF S = {} THEN <<>>
  ELSE LET m == CHOOSE x \in S : \A y \in S : x.id <= y.id
       IN <<m>> \o SortAsc(S \ {m})

RECURSIVE SortWrongWay(_)
\* mutant: the comparator of the rollback loop's sort is the ascending one
SortWrongWay(S) ==
  IF S = {} THEN <<>>
  ELSE LET m == CHOOSE x \in S : \A y \in S : x.id <= y.id
       IN <<m>> \o SortWrongWay(S \ {m})

RECURSIVE SortDesc(_)
\* .slice().sort((a, b) => Math.sign(b.id - a.id))
SortDesc(S) ==
  IF S = {} THEN <<>>
  ELSE LET m == CHOOSE x \in S : \A y \in S : x.id >= y.id
       IN <<m>> \o SortDesc(S \ {m})

Range(s) == {s[k] : k \in 1..Len(s)}

RECURSIVE SortedListings(_)
\* .sort((a, b) => Math.sign(a.id - b.id)) over what readdir returned: entries with
\* equal ids compare as equal and stay in readdir's order, which is any order
SortedListings(S) ==
  IF S = {} THEN {<<>>}
  ELSE UNION {{<<m>> \o t : t \in SortedListings(S \ {m})}
              : m \in {x \in S : \A y \in S : x.id <= y.id}}

\* mutant: the entries are left in the order readdir gave them (here: newest first)
ReadDirUnsorted(files) ==
  {SortDesc({[id |-> Number(f.digits), name |-> f.name, filename |-> f] : f \in files})}

\* readdir + map/filter/map/sort: the listings of entries with id, name and
\* filename that the call can resolve with
ReadDir(files) ==
  SortedListings({[id |-> Number(f.digits), name |-> f.name, filename |-> f] : f \in files})

\* readFile of every entry: up, down and hash are added to the entry
Parse(m) ==
  [id |-> m.id, name |-> m.name,
   up |-> UpOf(m.filename.data), down |-> DownOf(m.filename.data),
   hash |-> Sha512(m.filename.data)]

LoadAll(ms) == [k \in 1..Len(ms) |-> Parse(ms[k])]

\* ---- ledger rows ------------------------------------------------------------
Row(id, rev, hash) ==
  [id |-> id, name |-> "a", up |-> UpOf(Data(id, rev)),
   down |-> DownOf(Data(id, rev)), hash |-> hash]

EmptyTable == [id \in {} |-> Row(id, "new", NilHash)]

\* what a script does to the schema
Exec(script, sch) ==
  IF script.part = "up" THEN sch \cup {Data(script.id, script.rev)}
  ELSE sch \ {Data(script.id, script.rev)}

\* ---- the database behind conn ------------------------------------------------
\* d = [table, ledger, schema, txOpen, txLedger, txSchema]: the committed rows and
\* schema, and what the open transaction sees.  Outside a transaction a statement
\* is committed at once.
Write(d, rows, sch) ==
  IF d.txOpen THEN [d EXCEPT !.txLedger = rows, !.txSchema = sch]
  ELSE [d EXCEPT !.ledger = rows, !.schema = sch, !.txLedger = rows, !.txSchema = sch]

\* conn.query('begin')
Begin(d) == [d EXCEPT !.txOpen = TRUE]

\* conn.query('commit')
Commit(d) ==
  [d EXCEPT !.ledger = d.txLedger, !.schema = d.txSchema, !.txOpen = FALSE]

\* conn.query('rollback'); also what the server does when the session ends
Abort(d) ==
  [d EXCEPT !.txLedger = d.ledger, !.txSchema = d.schema, !.txOpen = FALSE]

\* conn.query(up) / conn.query(down)
Query(d, script) == Write(d, d.txLedger, Exec(script, d.txSchema))

\* create table if not exists "table" (id, name, up, down, hash)
CreateTableIfNotExists(d) == IF d.table = "none" THEN [d EXCEPT !.table = "ok"] ELSE d

\* select column_name from information_schema.columns ... .then(r => r.rows.length)
HasHashColumn(d) == d.table \in {"default", "ok"}

\* alter table add column hash text not null default 'nil'
AddHashColumn(d) ==
  [Write(d, [id \in DOMAIN d.txLedger |-> [d.txLedger[id] EXCEPT !.hash = NilHash]],
         d.txSchema) EXCEPT !.table = "default"]

\* alter table alter column hash drop default
DropHashDefault(d) == [d EXCEPT !.table = "ok"]

\* select id, name, up, down, hash from "table" order by id asc
SelectAll(d) == SortAsc({d.txLedger[id] : id \in DOMAIN d.txLedger})

\* mutant: the update of the hash is not sent
UpdateHashSkipped(d, rid, h) == d

\* update "table" set hash = $1 where id = $2
UpdateHash(d, rid, h) ==
  Write(d, [id \in DOMAIN d.txLedger |->
              IF id = rid THEN [d.txLedger[id] EXCEPT !.hash = h] ELSE d.txLedger[id]],
        d.txSchema)

\* delete from "table" where id = $1
DeleteRow(d, rid) ==
  Write(d, [id \in DOMAIN d.txLedger \ {rid} |-> d.txLedger[id]], d.txSchema)

\* insert into "table" (id, name, up, down, hash) values (...); id is the primary key
CanInsert(d, row) == row.id \notin DOMAIN d.txLedger

InsertRow(d, row) ==
  Write(d, [id \in DOMAIN d.txLedger \cup {row.id} |->
              IF id = row.id THEN row ELSE d.txLedger[id]],
        d.txSchema)

VARIABLES
  cfg,            \* the options of migrate: client, pool, force, checkHash, validateDown
  dir,            \* the files of migrationsPath
  db,             \* the database: table, ledger, schema, txOpen, txLedger, txSchema
  pc,             \* position of the co-routine
  cleanup,        \* "undefined" | "client" | "pool"
  migrations,     \* const migrations
  dbMigrations,   \* let dbMigrations
  firstMismatch,  \* let firstMismatch
  scan,           \* the sorted copy the rollback loop iterates over
  idx,            \* position of the running for-of loop
  lastMigrationId,\* const lastMigrationId
  released,       \* number of calls of cleanup in this run
  result,         \* "none" | "ok" | "error" | "crash": how the run ended
  late,           \* a query was issued after cleanup
  failed,         \* the transaction whose statement failed: op, id, length of log then
  prev,           \* how the run before this one ended: "none" | "ok" | "aborted"
  ledger0,        \* the ledger before the first of the runs aborted in a row
  pre,            \* the committed ledger and schema before this run
  log,            \* committed transactions of this run, in order
  ran             \* scripts sent to the connection in this run, in order

locals == <<migrations, dbMigrations, firstMismatch, scan, idx, lastMigrationId>>

hist == <<prev, ledger0, pre>>

vars == <<cfg, dir, db, pc, cleanup, migrations, dbMigrations, firstMismatch, scan, idx,
          lastMigrationId, released, result, late, failed, prev, ledger0, pre, log, ran>>

Configs ==
  [client : BOOLEAN, pool : BOOLEAN, force : {"false", "last"},
   checkHash : BOOLEAN, validateDown : BOOLEAN]

\* rows a table with the hash column can hold for an id
OkRows(id) ==
  {Row(id, "new", Sha512(Data(id, "new"))), Row(id, "old", Sha512(Data(id, "old"))),
   Row(id, "new", NilHash), Row(id, "old", NilHash)}

\* rows of a table created before the hash column existed
LegacyRows(id) == {Row(id, "new", NoColumn), Row(id, "old", NoColumn)}

Tables(rows(_)) ==
  UNION {{t \in [S -> UNION {rows(id) : id \in S}] : \A id \in S : t[id] \in rows(id)}
         : S \in SUBSET Ids}

SchemaOf(tbl) == {Data(id, tbl[id].up.rev) : id \in DOMAIN tbl}

Database(tbl, rows) ==
  [table |-> tbl, ledger |-> rows, schema |-> SchemaOf(rows),
   txOpen |-> FALSE, txLedger |-> rows, txSchema |-> SchemaOf(rows)]

NoFailure == [op |-> "none", id |-> 0, n |-> 0]

\* the state when migrate is called, the directory holding some of these files
Start(files) ==
  /\ cfg \in Configs
  /\ dir \in SUBSET files
  /\ \/ db = Database("none", EmptyTable)
     \/ \E rows \in Tables(LegacyRows) : db = Database("legacy", rows)
     \/ \E rows \in Tables(OkRows) : db = Database("ok", rows)
  /\ pc = "start"
  /\ cleanup = "undefined"
  /\ migrations = <<>>
  /\ dbMigrations = <<>>
  /\ firstMismatch = -1
  /\ scan = <<>>
  /\ idx = 0
  /\ lastMigrationId = 0
  /\ released = 0
  /\ result = "none"
  /\ late = FALSE
  /\ failed = NoFailure
  /\ prev = "none"
  /\ ledger0 = db.ledger
  /\ pre = [ledger |-> db.ledger, schema |-> db.schema]
  /\ log = <<>>
  /\ ran = <<>>

Init == Start(FileNames)

InitZeros == Start(ZeroFileNames)

\* ---- the decisions of migrate ------------------------------------------------
\* mutant: only the case of both client and pool is refused
BadConfigOnlyBoth(c) == c.client /\ c.pool

\* if ((client && pool) || (!client && !pool)) throw
BadConfig(c) == (c.client /\ c.pool) \/ (~c.client /\ ~c.pool)

\* migrations.some(x => x.id === id)
HasFile(ms, id) == \E k \in 1..Len(ms) : ms[k].id = id

\* migrations.find(x => x.id === id): the first entry with that id
Find(ms, id) ==
  ms[CHOOSE k \in 1..Len(ms) : ms[k].id = id /\ \A j \in 1..(k - 1) : ms[j].id # id]

\* mutant: the newest mismatch is remembered instead of the oldest
IsLastMismatch(file, row, fm) == file.hash # row.hash /\ (fm = -1 \/ row.id > fm)

\* mutant: equal hashes are taken for a mismatch
IsFirstMatch(file, row, fm) == file.hash = row.hash /\ (fm = -1 \/ row.id < fm)

\* file.hash !== hash && (firstMismatch === -1 || id < firstMismatch)
IsFirstMismatch(file, row, fm) == file.hash # row.hash /\ (fm = -1 \/ row.id < fm)

\* mutant: the newest definition's record is rolled back whatever force is
ShouldRollbackAlwaysForced(id, ms, c, fm) ==
  \/ ~HasFile(ms, id)
  \/ (c.checkHash /\ fm # -1 /\ id >= fm)
  \/ id = ms[Len(ms)].id

\* mutant: force is ignored
ShouldRollbackUnforced(id, ms, c, fm) ==
  \/ ~HasFile(ms, id)
  \/ (c.checkHash /\ fm # -1 /\ id >= fm)

\* mutant: only the mismatching record itself is rolled back, not the ones above it
ShouldRollbackOnlyAtMismatch(id, ms, c, fm) ==
  \/ ~HasFile(ms, id)
  \/ (c.checkHash /\ fm # -1 /\ id = fm)
  \/ (c.force = "last" /\ id = ms[Len(ms)].id)

\* mutant: a mismatch forces the rollback whether checkHash is set or not
ShouldRollbackUngated(id, ms, c, fm) ==
  \/ ~HasFile(ms, id)
  \/ (fm # -1 /\ id >= fm)
  \/ (c.force = "last" /\ id = ms[Len(ms)].id)

\* the condition of the rollback loop
ShouldRollback(id, ms, c, fm) ==
  \/ ~HasFile(ms, id)
  \/ (c.checkHash /\ fm # -1 /\ id >= fm)
  \/ (c.force = "last" /\ id = ms[Len(ms)].id)

\* mutant: the in-memory list is not updated after a rollback
RemainingStale(dbm, id) == dbm

\* dbMigrations = dbMigrations.filter(x => x.id !== id)
Remaining(dbm, id) == SelectSeq(dbm, LAMBDA x : x.id # id)

\* dbMigrations.length ? dbMigrations[dbMigrations.length - 1].id : 0
LastMigrationId(dbm) == IF Len(dbm) > 0 THEN dbm[Len(dbm)].id ELSE 0

\* if (id > lastMigrationId)
ShouldApply(id, last) == id > last

\* mutant: the rollback loop does not open a transaction
RollbackBeginMissing(d) == d

\* yield conn.query('begin') of the rollback loop
RollbackBegin(d) == Begin(d)

\* mutant: the apply loop does not open a transaction
ApplyBeginMissing(d) == d

\* yield conn.query('begin') of the apply loop
ApplyBegin(d) == Begin(d)

\* mutant: the rollback runs the down script of the file with the record's id
DownOfRecordFromFile(row, ms) ==
  IF HasFile(ms, row.id) THEN Find(ms, row.id).down ELSE row.down

\* for (const { id, down } of dbMigrations...) ... conn.query(down): the script the
\* rollback loop runs is the one selected from the table
DownOfRecord(row, ms) == row.down

\* the row the apply loop inserts: [id, name, up, down, hash]
RowOf(m) == [id |-> m.id, name |-> m.name, up |-> m.up, down |-> m.down, hash |-> m.hash]

\* ---- the code between two yields ---------------------------------------------
Issue == late' = (late \/ released > 0)

Throw == pc' = "catch"

CheckConfig ==
  /\ pc = "start"
  /\ IF BadConfig(cfg) THEN Throw ELSE pc' = "connect"
  /\ UNCHANGED <<cfg, dir, db, cleanup, locals, released, result, late, failed, hist,
                 log, ran>>

Connect ==
  /\ pc = "connect"
  /\ IF cfg.client
       THEN cleanup' = "client" /\ pc' = "readdir"
       ELSE \/ Throw /\ UNCHANGED cleanup
            \/ cleanup' = "pool" /\ pc' = "readdir"
  /\ UNCHANGED <<cfg, dir, db, locals, released, result, late, failed, hist, log, ran>>

ListFiles ==
  /\ pc = "readdir"
  /\ \/ Throw /\ UNCHANGED migrations
     \/ /\ migrations' \in ReadDir(dir)
        /\ IF Len(migrations') = 0 THEN Throw ELSE pc' = "readFiles"
  /\ UNCHANGED <<cfg, dir, db, cleanup, dbMigrations, firstMismatch, scan, idx,
                 lastMigrationId, released, result, late, failed, hist, log, ran>>

ReadFiles ==
  /\ pc = "readFiles"
  /\ \/ Throw /\ UNCHANGED migrations
     \/ migrations' = LoadAll(migrations) /\ pc' = "createTable"
  /\ UNCHANGED <<cfg, dir, db, cleanup, dbMigrations, firstMismatch, scan, idx,
                 lastMigrationId, released, result, late, failed, hist, log, ran>>

CreateTable ==
  /\ pc = "createTable"
  /\ Issue
  /\ \/ Throw /\ UNCHANGED db
     \/ db' = CreateTableIfNotExists(db) /\ pc' = "hashColumn"
  /\ UNCHANGED <<cfg, dir, cleanup, locals, released, result, failed, hist, log, ran>>

HashColumn ==
  /\ pc = "hashColumn"
  /\ Issue
  /\ \/ Throw
     \/ pc' = (IF HasHashColumn(db) THEN "select" ELSE "alterAdd")
  /\ UNCHANGED <<cfg, dir, db, cleanup, locals, released, result, failed, hist, log, ran>>

AlterAdd ==
  /\ pc = "alterAdd"
  /\ Issue
  /\ \/ Throw /\ UNCHANGED db
     \/ db' = AddHashColumn(db) /\ pc' = "alterDrop"
  /\ UNCHANGED <<cfg, dir, cleanup, locals, released, result, failed, hist, log, ran>>

AlterDrop ==
  /\ pc = "alterDrop"
  /\ Issue
  /\ \/ Throw /\ UNCHANGED db
     \/ db' = DropHashDefault(db) /\ pc' = "select"
  /\ UNCHANGED <<cfg, dir, cleanup, locals, released, result, failed, hist, log, ran>>

Select ==
  /\ pc = "select"
  /\ Issue
  /\ \/ Throw /\ UNCHANGED <<dbMigrations, idx>>
     \/ dbMigrations' = SelectAll(db) /\ idx' = 1 /\ pc' = "audit"
  /\ UNCHANGED <<cfg, dir, db, cleanup, migrations, firstMismatch, scan,
                 lastMigrationId, released, result, failed, hist, log, ran>>

\* one pass of the loop over dbMigrations that looks for hash mismatches
Audit ==
  /\ pc = "audit"
  /\ idx <= Len(dbMigrations)
  /\ LET row == dbMigrations[idx] IN
     IF ~HasFile(migrations, row.id)
       THEN /\ idx' = idx + 1
            /\ UNCHANGED <<pc, firstMismatch, db, late>>
     ELSE IF row.hash = NilHash
       THEN /\ Issue
            /\ \/ Throw /\ UNCHANGED <<idx, db>>
               \/ /\ db' = UpdateHash(db, row.id, Find(migrations, row.id).hash)
                  /\ idx' = idx + 1
                  /\ UNCHANGED pc
            /\ UNCHANGED firstMismatch
     ELSE /\ firstMismatch' =
               (IF IsFirstMismatch(Find(migrations, row.id), row, firstMismatch)
                  THEN row.id ELSE firstMismatch)
          /\ idx' = idx + 1
          /\ UNCHANGED <<pc, db, late>>
  /\ UNCHANGED <<cfg, dir, cleanup, migrations, dbMigrations, scan, lastMigrationId,
                 released, result, failed, hist, log, ran>>

AuditDone ==
  /\ pc = "audit"
  /\ idx > Len(dbMigrations)
  /\ scan' = SortDesc(Range(dbMigrations))
  /\ idx' = 1
  /\ pc' = "rollback"
  /\ UNCHANGED <<cfg, dir, db, cleanup, migrations, dbMigrations, firstMismatch,
                 lastMigrationId, released, result, late, failed, hist, log, ran>>

\* head of the rollback loop: roll this record back (begin), or leave the loop
Rollback ==
  /\ pc = "rollback"
  /\ IF idx <= Len(scan) /\ ShouldRollback(scan[idx].id, migrations, cfg, firstMismatch)
       THEN /\ Issue
            /\ \/ Throw /\ UNCHANGED db
               \/ db' = RollbackBegin(db) /\ pc' = "rb_down"
            /\ UNCHANGED <<idx, lastMigrationId>>
       ELSE /\ lastMigrationId' = LastMigrationId(dbMigrations)
            /\ idx' = 1
            /\ pc' = "apply"
            /\ UNCHANGED <<db, late>>
  /\ UNCHANGED <<cfg, dir, cleanup, migrations, dbMigrations, firstMismatch, scan,
                 released, result, failed, hist, log, ran>>

\* a statement inside try { } failed: control goes to the catch block
Fail(op, id, to) ==
  /\ failed' = [op |-> op, id |-> id, n |-> Len(log)]
  /\ pc' = to

RbDown ==
  /\ pc = "rb_down"
  /\ Issue
  /\ ran' = Append(ran, DownOfRecord(scan[idx], migrations))
  /\ \/ Fail("rollback", scan[idx].id, "rb_catch") /\ UNCHANGED db
     \/ /\ db' = Query(db, DownOfRecord(scan[idx], migrations))
        /\ pc' = "rb_delete"
        /\ UNCHANGED failed
  /\ UNCHANGED <<cfg, dir, cleanup, locals, released, result, hist, log>>

RbDelete ==
  /\ pc = "rb_delete"
  /\ Issue
  /\ \/ Fail("rollback", scan[idx].id, "rb_catch") /\ UNCHANGED db
     \/ db' = DeleteRow(db, scan[idx].id) /\ pc' = "rb_commit" /\ UNCHANGED failed
  /\ UNCHANGED <<cfg, dir, cleanup, locals, released, result, hist, log, ran>>

RbCommit ==
  /\ pc = "rb_commit"
  /\ Issue
  /\ \/ /\ Fail("rollback", scan[idx].id, "rb_catch")
        /\ UNCHANGED <<db, dbMigrations, idx, log>>
     \/ /\ db' = Commit(db)
        /\ dbMigrations' = Remaining(dbMigrations, scan[idx].id)
        /\ log' = Append(log, [op |-> "rollback", id |-> scan[idx].id])
        /\ idx' = idx + 1
        /\ pc' = "rollback"
        /\ UNCHANGED failed
  /\ UNCHANGED <<cfg, dir, cleanup, migrations, firstMismatch, scan, lastMigrationId,
                 released, result, hist, ran>>

\* catch (err) { yield conn.query('rollback'); throw err }
RbCatch ==
  /\ pc = "rb_catch"
  /\ Issue
  /\ \/ UNCHANGED db
     \/ db' = Abort(db)
  /\ Throw
  /\ UNCHANGED <<cfg, dir, cleanup, locals, released, result, failed, hist, log, ran>>

\* head of the apply loop: apply this definition (begin), skip it, or finish
Apply ==
  /\ pc = "apply"
  /\ IF idx > Len(migrations)
       THEN pc' = "then" /\ UNCHANGED <<idx, db, late>>
     ELSE IF ShouldApply(migrations[idx].id, lastMigrationId)
       THEN /\ Issue
            /\ \/ Throw /\ UNCHANGED db
               \/ db' = ApplyBegin(db) /\ pc' = "ap_up"
            /\ UNCHANGED idx
     ELSE idx' = idx + 1 /\ UNCHANGED <<pc, db, late>>
  /\ UNCHANGED <<cfg, dir, cleanup, migrations, dbMigrations, firstMismatch, scan,
                 lastMigrationId, released, result, failed, hist, log, ran>>

ApUp ==
  /\ pc = "ap_up"
  /\ Issue
  /\ ran' = Append(ran, migrations[idx].up)
  /\ \/ Fail("apply", migrations[idx].id, "ap_catch") /\ UNCHANGED db
     \/ /\ db' = Query(db, migrations[idx].up)
        /\ pc' = (IF cfg.validateDown THEN "ap_down" ELSE "ap_insert")
        /\ UNCHANGED failed
  /\ UNCHANGED <<cfg, dir, cleanup, locals, released, result, hist, log>>

ApDown ==
  /\ pc = "ap_down"
  /\ Issue
  /\ ran' = Append(ran, migrations[idx].down)
  /\ \/ Fail("apply", migrations[idx].id, "ap_catch") /\ UNCHANGED db
     \/ db' = Query(db, migrations[idx].down) /\ pc' = "ap_up2" /\ UNCHANGED failed
  /\ UNCHANGED <<cfg, dir, cleanup, locals, released, result, hist, log>>

ApUp2 ==
  /\ pc = "ap_up2"
  /\ Issue
  /\ ran' = Append(ran, migrations[idx].up)
  /\ \/ Fail("apply", migrations[idx].id, "ap_catch") /\ UNCHANGED db
     \/ db' = Query(db, migrations[idx].up) /\ pc' = "ap_insert" /\ UNCHANGED failed
  /\ UNCHANGED <<cfg, dir, cleanup, locals, released, result, hist, log>>

ApInsert ==
  /\ pc = "ap_insert"
  /\ Issue
  /\ \/ Fail("apply", migrations[idx].id, "ap_catch") /\ UNCHANGED db
     \/ /\ CanInsert(db, RowOf(migrations[idx]))
        /\ db' = InsertRow(db, RowOf(migrations[idx]))
        /\ pc' = "ap_commit"
        /\ UNCHANGED failed
  /\ UNCHANGED <<cfg, dir, cleanup, locals, released, result, hist, log, ran>>

ApCommit ==
  /\ pc = "ap_commit"
  /\ Issue
  /\ \/ /\ Fail("apply", migrations[idx].id, "ap_catch")
        /\ UNCHANGED <<db, idx, log>>
     \/ /\ db' = Commit(db)
        /\ log' = Append(log, [op |-> "apply", id |-> migrations[idx].id])
        /\ idx' = idx + 1
        /\ pc' = "apply"
        /\ UNCHANGED failed
  /\ UNCHANGED <<cfg, dir, cleanup, migrations, dbMigrations, firstMismatch, scan,
                 lastMigrationId, released, result, hist, ran>>

\* catch (err) { yield conn.query('rollback'); throw err }
ApCatch ==
  /\ pc = "ap_catch"
  /\ Issue
  /\ \/ UNCHANGED db
     \/ db' = Abort(db)
  /\ Throw
  /\ UNCHANGED <<cfg, dir, cleanup, locals, released, result, failed, hist, log, ran>>

\* cleanup(): client.end(), and done(err) for a pool connection; the session
\* ends and the server drops a transaction left open on it
Cleanup == released' = released + 1 /\ db' = Abort(db)

\* .then(() => { if (typeof cleanup === 'function') cleanup() })
Then ==
  /\ pc = "then"
  /\ IF cleanup # "undefined"
       THEN /\ Cleanup
            /\ \/ Throw /\ UNCHANGED result
               \/ result' = "ok" /\ pc' = "settled"
       ELSE result' = "ok" /\ pc' = "settled" /\ UNCHANGED <<released, db>>
  /\ UNCHANGED <<cfg, dir, cleanup, locals, late, failed, hist, log, ran>>

\* mutant: the catch handler rethrows without calling cleanup
CatchWithoutCleanup ==
  /\ pc = "catch"
  /\ result' = "error"
  /\ pc' = "settled"
  /\ UNCHANGED <<cfg, dir, db, cleanup, locals, released, late, failed, hist, log, ran>>

\* .catch(e => { if (typeof cleanup === 'function') cleanup(); throw e })
Catch ==
  /\ pc = "catch"
  /\ IF cleanup # "undefined" THEN Cleanup ELSE UNCHANGED <<released, db>>
  /\ result' = "error"
  /\ pc' = "settled"
  /\ UNCHANGED <<cfg, dir, cleanup, locals, late, failed, hist, log, ran>>

\* the process is interrupted: nothing more runs, the server drops the session
Interrupt ==
  /\ pc \notin {"start", "settled"}
  /\ result' = "crash"
  /\ pc' = "settled"
  /\ db' = Abort(db)
  /\ UNCHANGED <<cfg, dir, cleanup, locals, released, late, failed, hist, log, ran>>

\* migrate is called again with the same options, directory and database
NextRun ==
  /\ pc = "settled"
  /\ prev' = (IF result = "ok" THEN "ok" ELSE "aborted")
  /\ ledger0' = (IF result = "ok" THEN db.ledger ELSE ledger0)
  /\ pre' = [ledger |-> db.ledger, schema |-> db.schema]
  /\ db' = Abort(db)
  /\ pc' = "start"
  /\ cleanup' = "undefined"
  /\ migrations' = <<>>
  /\ dbMigrations' = <<>>
  /\ firstMismatch' = -1
  /\ scan' = <<>>
  /\ idx' = 0
  /\ lastMigrationId' = 0
  /\ released' = 0
  /\ result' = "none"
  /\ late' = FALSE
  /\ failed' = NoFailure
  /\ log' = <<>>
  /\ ran' = <<>>
  /\ UNCHANGED <<cfg, dir>>

Next ==
  \/ CheckConfig
  \/ Connect
  \/ ListFiles
  \/ ReadFiles
  \/ CreateTable
  \/ HashColumn
  \/ AlterAdd
  \/ AlterDrop
  \/ Select
  \/ Audit
  \/ AuditDone
  \/ Rollback
  \/ RbDown
  \/ RbDelete
  \/ RbCommit
  \/ RbCatch
  \/ Apply
  \/ ApUp
  \/ ApDown
  \/ ApUp2
  \/ ApInsert
  \/ ApCommit
  \/ ApCatch
  \/ Then
  \/ Catch
  \/ Interrupt

\* one run of migrate, from any database and directory
Spec == Init /\ [][Next]_vars

NextRerun ==
  \/ Next
  \/ NextRun

\* migrate run again and again, nothing else touching the directory or the database
SpecRerun == Init /\ [][NextRerun]_vars

\* one run of migrate over a directory that may hold 1.a.sql and 01.b.sql together
SpecZeros == InitZeros /\ [][Next]_vars

\* ---- what the claims speak of -------------------------------------------------
Max(S) == IF S = {} THEN 0 ELSE CHOOSE x \in S : \A y \in S : x >= y

\* ids of the loaded definitions
DefIds == {Number(f.digits) : f \in dir}

\* the ledger record of the definition with this id
DefRow(id) == Row(id, "new", Sha512(Data(id, "new")))

PreIds == DOMAIN pre.ledger

LedgerIds == DOMAIN db.ledger

Committed(op) == SelectSeq(log, LAMBDA e : e.op = op)

\* ids rolled back and ids applied by this run so far, in the order of their commits
RolledSeq == [k \in 1..Len(Committed("rollback")) |-> Committed("rollback")[k].id]

AppliedSeq == [k \in 1..Len(Committed("apply")) |-> Committed("apply")[k].id]

RolledIds == Range(RolledSeq)

AppliedIds == Range(AppliedSeq)

\* the newest pre-run record this run has not rolled back (0 if none)
KeptMax == Max(PreIds \ RolledIds)

\* C1 as claimed: after a successful run the ids recorded in the ledger are the
\* ids of the loaded definitions.
C1_LedgerEqualsDefinitions == result = "ok" => LedgerIds = DefIds

\* C1 as amended: after a successful run the ids recorded in the ledger are the
\* ids of the pre-run records the run did not roll back together with the ids of
\* all definitions newer than the newest of those records.
C1_LedgerIsKeptPlusNewer ==
  result = "ok" => LedgerIds = (PreIds \ RolledIds) \cup {d \in DefIds : d > KeptMax}

C1_Witness == result = "ok" /\ RolledIds # {} /\ AppliedIds # {}

\* C2 as claimed: a run that follows a successful run, with the same options,
\* directory and database, rolls nothing back and applies nothing.
C2_SecondRunDoesNothing == prev = "ok" => (log = <<>> /\ ran = <<>>)

\* C2 as amended: the same, when force is not 'last'.
C2_SecondRunDoesNothingUnforced ==
  (prev = "ok" /\ cfg.force = "false") => (log = <<>> /\ ran = <<>>)

C2_Witness ==
  prev = "ok" /\ cfg.force = "false" /\ result = "ok" /\ LedgerIds # {} /\ cfg.checkHash

RECURSIVE Descending(_)
\* the ids of a set, newest first
Descending(S) == IF S = {} THEN <<>> ELSE <<Max(S)>> \o Descending(S \ {Max(S)})

\* the sentinel, or no hash column yet (the column is added with the sentinel)
Sentinel(h) == h \in {NilHash, NoColumn}

\* a record of ledger L whose stored hash is not that of its definition
MismatchIn(L, id) ==
  /\ id \in DOMAIN L \cap DefIds
  /\ ~Sentinel(L[id].hash)
  /\ L[id].hash # DefRow(id).hash

\* the rollback conditions (a), (b), (c) for a record of ledger L
MustRollBackIn(L, id) ==
  \/ id \notin DefIds
  \/ (cfg.checkHash /\ \E m \in DOMAIN L : MismatchIn(L, m) /\ id >= m)
  \/ (cfg.force = "last" /\ id = Max(DefIds))

Mismatch(id) == MismatchIn(pre.ledger, id)

MustRollBack(id) == MustRollBackIn(pre.ledger, id)

\* C3: the records rolled back are the k newest records of the pre-run ledger,
\* rolled back newest first, and nothing older than a record that meets none of
\* the rollback conditions is rolled back.
C3_RollbackIsDescendingSuffix ==
  /\ Len(RolledSeq) <= Cardinality(PreIds)
  /\ RolledSeq = SubSeq(Descending(PreIds), 1, Len(RolledSeq))
  /\ \A r \in PreIds : ~MustRollBack(r) => \A x \in RolledIds : x > r

C3_Witness ==
  /\ result = "ok"
  /\ RolledSeq # <<>>
  /\ \E r \in PreIds \ RolledIds : ~MustRollBack(r)

RECURSIVE Ascending(_)
\* the ids of a set, oldest first
Ascending(S) ==
  IF S = {} THEN <<>>
  ELSE LET m == CHOOSE x \in S : \A y \in S : x <= y IN <<m>> \o Ascending(S \ {m})

\* the definitions newer than the newest record left after the rollbacks
Eligible == Ascending({d \in DefIds : d > KeptMax})

\* C4: every rollback of a run is committed before its first apply; the applies
\* are the definitions with id > lastAppliedId in ascending order, each once
\* (a prefix of them while the run is under way or aborted, all of them once the
\* apply loop has ended); no up script of an id <= lastAppliedId is ever sent.
C4_RollbacksThenAscendingApplies ==
  /\ \A i, j \in 1..Len(log) : (i < j /\ log[i].op = "apply") => log[j].op = "apply"
  /\ Len(AppliedSeq) <= Len(Eligible)
  /\ AppliedSeq = SubSeq(Eligible, 1, Len(AppliedSeq))
  /\ (pc = "then" \/ result = "ok") => AppliedSeq = Eligible
  /\ \A k \in 1..Len(ran) : ran[k].part = "up" => ran[k].id > KeptMax

C4_Witness ==
  result = "ok" /\ RolledSeq # <<>> /\ Len(AppliedSeq) >= 2 /\ KeptMax = 0

\* a statement of a transaction has failed and the run has left the catch block
Aborted(op) == failed.op = op /\ pc \in {"catch", "settled"}

\* C5: when a statement of an apply fails (up, down or second up of the
\* self-test, insert, commit) the ledger has no record of that id, the schema has
\* none of its effects, nothing is rolled back, applied or sent afterwards, and
\* once the run has ended no transaction is open; a record that was not in the
\* pre-run ledger exists only with its committed up script.
C5_ApplyIsAtomic ==
  /\ Aborted("apply") =>
       /\ failed.id \notin LedgerIds
       /\ Data(failed.id, "new") \notin db.schema
       /\ Len(log) = failed.n
       /\ ran[Len(ran)].id = failed.id
       /\ pc = "settled" => ~db.txOpen
  /\ \A id \in LedgerIds \ PreIds : id \in AppliedIds
  /\ \A id \in AppliedIds :
       id \in LedgerIds /\ db.ledger[id] = DefRow(id) /\ Data(id, "new") \in db.schema
  /\ \A id \in Ids :
       Data(id, "new") \in db.schema => (id \in LedgerIds /\ db.ledger[id].up.rev = "new")

C5_Witness ==
  /\ result = "error"
  /\ failed.op = "apply"
  /\ AppliedSeq # <<>>
  /\ ran[Len(ran)].part = "down"

\* C6: when the down script, the delete or the commit of a rollback fails, the
\* record of that id is still in the ledger as it was, the schema still has what
\* the down script removes, nothing is rolled back, applied or sent afterwards,
\* and once the run has ended no transaction is open.
C6_RollbackIsAtomic ==
  Aborted("rollback") =>
    /\ failed.id \in LedgerIds
    /\ failed.id \in PreIds
    /\ LET now == db.ledger[failed.id]
           was == pre.ledger[failed.id]
       IN /\ [now EXCEPT !.hash = NilHash] = [was EXCEPT !.hash = NilHash]
          /\ \/ now.hash = was.hash
             \/ Sentinel(was.hash) /\ now.hash = NilHash
             \/ Sentinel(was.hash) /\ failed.id \in DefIds /\ now.hash = DefRow(failed.id).hash
          /\ Data(failed.id, now.up.rev) \in db.schema
          /\ ran[Len(ran)] = now.down
    /\ Len(log) = failed.n
    /\ AppliedSeq = <<>>
    /\ \A k \in 1..Len(ran) : ran[k].part = "down"
    /\ pc = "settled" => ~db.txOpen

C6_Witness == result = "error" /\ failed.op = "rollback" /\ RolledSeq # <<>>

\* C7: once the promise of a run that acquired a handle has settled, cleanup has
\* been called; no query is ever issued after cleanup.
C7_ReleasedBeforeResult ==
  /\ (result \in {"ok", "error"} /\ cleanup # "undefined") => released >= 1
  /\ ~late

C7_Witness ==
  result = "error" /\ cleanup = "pool" /\ released = 1 /\ failed.op = "apply" /\ ~late

\* a row after the audit: a sentinel hash is replaced by the definition's hash
Backfilled(row) ==
  IF Sentinel(row.hash)
    THEN [row EXCEPT !.hash = IF row.id \in DefIds THEN DefRow(row.id).hash ELSE NilHash]
    ELSE row

\* the records of L at or below the newest record that meets no rollback condition
Keep(L) == {r \in DOMAIN L : \E k \in DOMAIN L : k >= r /\ ~MustRollBackIn(L, k)}

\* the ledger a run without failure leaves when it starts from ledger L
Expected(L) ==
  [id \in Keep(L) \cup {d \in DefIds : d > Max(Keep(L))} |->
     IF id \in Keep(L) THEN Backfilled(L[id]) ELSE DefRow(id)]

\* C8: at every moment the committed ledger is the pre-run ledger without the
\* records of the committed rollbacks and with the records of the committed
\* applies; and a run that succeeds, directly or after any number of aborted or
\* interrupted runs, leaves the ledger (ids, scripts, hashes) that a run without
\* failure leaves from the ledger before the first of them.
C8_Resumable ==
  /\ LedgerIds = (PreIds \ RolledIds) \cup AppliedIds
  /\ \A id \in AppliedIds : db.ledger[id] = DefRow(id)
  /\ \A id \in PreIds \ (RolledIds \cup AppliedIds) :
       db.ledger[id] \in {pre.ledger[id], Backfilled(pre.ledger[id]),
                          [pre.ledger[id] EXCEPT !.hash = NilHash]}
  /\ result = "ok" => db.ledger = Expected(ledger0)

C8_Witness ==
  /\ result = "ok"
  /\ prev = "aborted"
  /\ PreIds # DOMAIN ledger0
  /\ RolledSeq # <<>>
  /\ AppliedSeq # <<>>

\* C9 as claimed: with force 'last' and a non-empty ledger, a successful run rolls
\* back and reapplies the record with the greatest id of the ledger.
C9_NewestRecordReapplied ==
  (result = "ok" /\ cfg.force = "last" /\ PreIds # {}) =>
     (Max(PreIds) \in RolledIds /\ Max(PreIds) \in AppliedIds)

\* C9 as amended: with force 'last', when the greatest id of the ledger is also the
\* greatest id of the definitions, a successful run rolls that record back and
\* applies it again, changed or not.
C9_NewestDefinitionReapplied ==
  (result = "ok" /\ cfg.force = "last" /\ PreIds # {} /\ Max(PreIds) = Max(DefIds)) =>
     (Max(PreIds) \in RolledIds /\ Max(PreIds) \in AppliedIds)

C9_Witness ==
  /\ result = "ok"
  /\ cfg.force = "last"
  /\ ~cfg.checkHash
  /\ PreIds # {}
  /\ Max(PreIds) = Max(DefIds)
  /\ pre.ledger[Max(PreIds)] = DefRow(Max(PreIds))
  /\ Max(PreIds) \in RolledIds
  /\ Max(PreIds) \in AppliedIds

\* force 'last', ledger ids = definition ids, no script differs, no hash mismatch
Unchanged ==
  /\ cfg.force = "last"
  /\ PreIds = DefIds
  /\ \A id \in PreIds :
       /\ pre.ledger[id].up = DefRow(id).up
       /\ pre.ledger[id].down = DefRow(id).down
       /\ ~Mismatch(id)

\* exactly the newest record is rolled back and applied, no other script is sent
OnlyNewestRedone ==
  /\ RolledSeq = <<Max(PreIds)>>
  /\ AppliedSeq = <<Max(PreIds)>>
  /\ \A k \in 1..Len(ran) : ran[k].id = Max(PreIds)
  /\ LedgerIds = PreIds

\* C10 as claimed, for the runs with checkHash enabled (where the audit and its
\* backfill are prescribed): under these conditions a successful run redoes only
\* the newest record and leaves every older row as it was.
C10_OlderRowsUntouched ==
  (result = "ok" /\ Unchanged /\ cfg.checkHash) =>
     /\ OnlyNewestRedone
     /\ \A id \in PreIds : id < Max(PreIds) => db.ledger[id] = pre.ledger[id]

\* C10 as amended: an older row is as it was except that a sentinel hash has been
\* replaced by the hash of its definition.
C10_OlderRowsOnlyBackfilled ==
  (result = "ok" /\ Unchanged) =>
     /\ OnlyNewestRedone
     /\ \A id \in PreIds : id < Max(PreIds) => db.ledger[id] = Backfilled(pre.ledger[id])

C10_Witness ==
  /\ result = "ok"
  /\ Unchanged
  /\ cfg.checkHash
  /\ Cardinality(PreIds) >= 2
  /\ \A id \in PreIds : pre.ledger[id] = DefRow(id)
  /\ OnlyNewestRedone

\* the smallest id of the pre-run ledger whose stored hash is a mismatch (0 if none)
SmallestMismatch ==
  IF \E m \in PreIds : Mismatch(m)
    THEN CHOOSE m \in PreIds : Mismatch(m) /\ \A k \in PreIds : Mismatch(k) => m <= k
    ELSE 0

\* C11: with checkHash enabled and a stored hash (not the sentinel) that differs from
\* its definition's, a successful run has rolled back every record with an id at or
\* above the smallest mismatching id, has applied every definition with an id at or
\* above it, and leaves every record whose id has a definition with that definition's
\* hash; while the run is under way the records rolled back so far are the newest ones.
C11_MismatchRollsBackSuffix ==
  (cfg.checkHash /\ SmallestMismatch # 0) =>
     /\ \A r \in RolledIds : r >= SmallestMismatch \/ MustRollBack(r)
     /\ pc \in {"apply", "then"} \/ result = "ok" =>
          \A r \in PreIds : r >= SmallestMismatch => r \in RolledIds
     /\ result = "ok" =>
          /\ \A d \in DefIds : d >= SmallestMismatch => d \in AppliedIds
          /\ \A id \in LedgerIds \cap DefIds : db.ledger[id].hash = DefRow(id).hash

C11_Witness ==
  /\ result = "ok"
  /\ cfg.checkHash
  /\ cfg.force = "false"
  /\ SmallestMismatch = 1
  /\ 2 \in PreIds /\ ~Mismatch(2)
  /\ RolledSeq = <<2, 1>>
  /\ AppliedSeq = <<1, 2>>

\* C12: when neither or both of client and pool are given, the run never gets past
\* the check: no handle is acquired, no directory entry or file is read, no
\* statement reaches the database, the ledger and the schema are as before, and the
\* run ends with an error.
C12_BadConfigTouchesNothing ==
  cfg.client = cfg.pool =>
     /\ pc \in {"start", "catch", "settled"}
     /\ cleanup = "undefined"
     /\ released = 0
     /\ migrations = <<>>
     /\ dbMigrations = <<>>
     /\ ran = <<>> /\ log = <<>>
     /\ db.ledger = pre.ledger /\ db.schema = pre.schema /\ ~db.txOpen
     /\ result # "ok"
     /\ ~late

C12_Witness ==
  /\ cfg.client = cfg.pool
  /\ ~cfg.client /\ ~cfg.pool
  /\ result = "error"
  /\ dir # {}
  /\ PreIds # DefIds

\* C13 as claimed: in a run with checkHash disabled, the audit loop leaves the hash
\* of every row as the select before it read it.
C13_NoBackfillWithoutCheckHash ==
  (~cfg.checkHash /\ pc = "audit") =>
     \A k \in 1..Len(dbMigrations) :
        db.ledger[dbMigrations[k].id].hash = dbMigrations[k].hash

\* conditions (a) and (c) of the rollback scan for a record id
NoFileOrForced(id) == id \notin DefIds \/ (cfg.force = "last" /\ id = Max(DefIds))

\* the audit loop stands at a record whose stored hash differs from its definition's
AuditAtMismatch ==
  /\ pc = "audit"
  /\ idx <= Len(dbMigrations)
  /\ HasFile(migrations, dbMigrations[idx].id)
  /\ dbMigrations[idx].hash # NilHash
  /\ dbMigrations[idx].hash # Find(migrations, dbMigrations[idx].id).hash

\* C14: with checkHash disabled every record rolled back meets (a) or (c), the
\* rollback phase rolls back exactly the newest records that all meet (a) or (c),
\* and the audit step at a mismatching record goes on with the loop: it does not
\* end the run.
C14_MismatchIgnoredWithoutCheckHash ==
  /\ [](~cfg.checkHash =>
          /\ \A r \in RolledIds : NoFileOrForced(r)
          /\ pc \in {"apply", "then"} \/ result = "ok" =>
               RolledIds = {r \in PreIds : \A k \in PreIds : k >= r => NoFileOrForced(k)})
  /\ [][(~cfg.checkHash /\ AuditAtMismatch) => (pc' = "audit" \/ result' = "crash")]_vars

C14_Witness ==
  /\ result = "ok"
  /\ ~cfg.checkHash
  /\ \E m \in PreIds : Mismatch(m)
  /\ firstMismatch # -1
  /\ log = <<>>
  /\ db.ledger = pre.ledger

\* the audit loop has ended and the run is in its rollback or apply phase
AfterAudit ==
  pc \in {"rollback", "rb_down", "rb_delete", "rb_commit", "rb_catch",
          "apply", "ap_up", "ap_down", "ap_up2", "ap_insert", "ap_commit", "ap_catch",
          "then"}

\* the pre-run records with the sentinel hash whose id has a definition
SentinelIds == {id \in PreIds \cap DefIds : Sentinel(pre.ledger[id].hash)}

\* C15: firstMismatch is never the id of a record whose stored hash was the
\* sentinel, and from the start of the rollback phase on every such record with a
\* definition, while it is in the ledger, stores the hash of its definition.
C15_SentinelBackfilledNotMismatch ==
  /\ firstMismatch # -1 => (firstMismatch \in PreIds /\ Mismatch(firstMismatch))
  /\ AfterAudit =>
       \A id \in SentinelIds \cap LedgerIds : db.ledger[id].hash = DefRow(id).hash

C15_Witness ==
  /\ pc = "rollback"
  /\ cfg.checkHash
  /\ log = <<>>
  /\ firstMismatch = 2
  /\ 1 \in SentinelIds
  /\ pre.ledger[1].up.rev = "old"
  /\ db.ledger[1] = [pre.ledger[1] EXCEPT !.hash = DefRow(1).hash]

\* C16 as claimed: the definitions the loader produced are strictly ascending by id.
C16_LoadedIdsStrictlyAscending ==
  \A i, j \in 1..Len(migrations) : i < j => migrations[i].id < migrations[j].id

\* C17 as claimed: when the insert of an apply is about to be sent, the ledger the
\* transaction sees holds no record with the id being applied.
C17_InsertNeverCollides ==
  pc = "ap_insert" => CanInsert(db, RowOf(migrations[idx]))

\* position in ran of the first up script (Len(ran) + 1 if none was sent)
FirstUp ==
  IF \E k \in 1..Len(ran) : ran[k].part = "up"
    THEN CHOOSE k \in 1..Len(ran) :
           ran[k].part = "up" /\ \A j \in 1..(k - 1) : ran[j].part # "up"
    ELSE Len(ran) + 1

\* the scripts of the files in the directory
DefScripts == {UpOf(f.data) : f \in dir} \cup {DownOf(f.data) : f \in dir}

\* C18: the scripts sent before the first up script are those of the rollbacks, one
\* for each committed rollback in order and at most one more for the rollback under
\* way or failed, and each is the down script stored in the pre-run ledger record
\* of its id; every script sent from the first up script on is a script of a file.
C18_RollbackRunsLedgerDown ==
  /\ \A k \in 1..(FirstUp - 1) :
        ran[k].id \in PreIds /\ ran[k] = pre.ledger[ran[k].id].down
  /\ \A k \in 1..Len(RolledSeq) :
        k < FirstUp /\ ran[k] = pre.ledger[RolledSeq[k]].down
  /\ FirstUp - 1 \in {Len(RolledSeq), Len(RolledSeq) + 1}
  /\ \A k \in FirstUp..Len(ran) : ran[k] \in DefScripts

C18_Witness ==
  /\ result = "ok"
  /\ RolledSeq = <<2, 1>>
  /\ 2 \notin DefIds
  /\ 1 \in DefIds
  /\ pre.ledger[1].down = DownOf(Data(1, "old"))
  /\ ran[2] = DownOf(Data(1, "old"))
  /\ AppliedSeq = <<1>>

\* C19 as claimed: in one run cleanup is called at most once.
C19_ReleasedAtMostOnce == released <= 1

====
